---- MODULE Spec2Model ----
(***************************************************************************)
(* Model of the cell-count pipeline of toby-reid/teiko-technical:          *)
(*   common.py                  get_csv_headers                            *)
(*   relative_cell_counter.py   get_output_csv_row,                        *)
(*                              convert_sample_cell_count,                 *)
(*                              convert_cell_count                         *)
(*   cell_treatment_analyzer.py get_sample_relative, calculate_responders, *)
(*                              parse_args, main                           *)
(*   common.py                  read_csv, write_csv                        *)
(*   relative_cell_counter.py,  main (the standalone converter tool and    *)
(*   relative_cell_counts.py    its self-contained copy)                   *)
(*                                                                         *)
(* Conventions.                                                            *)
(*  - A Python list is a TLA+ sequence; Python's zero-based index i is the *)
(*    TLA+ position i + 1 (operator At).                                   *)
(*  - A Python dict is a TLA+ function whose DOMAIN is the key set.        *)
(*  - A call either returns or raises: its outcome is a record             *)
(*    [status |-> "ok", value |-> v] or [status |-> <exception name>].     *)
(*  - Column names, sample ids and flags are TLA+ strings.  Numeric text   *)
(*    (counts, totals, percentages) is a sequence of one-character         *)
(*    strings, so that str(), int(), float() and the ".2f" format are      *)
(*    modelled by what they do to the characters.                          *)
(*  - A Python float read from a percentage text is modelled by its value  *)
(*    in hundredths (an integer); all percentage texts of the model have   *)
(*    at most two decimals.                                                *)
(***************************************************************************)
EXTENDS Integers, Sequences, FiniteSets, TLC

VARIABLES
    pc,                \* position of the run: "start", then one label per call made
    header_row,        \* get_csv_headers: the header row
    required_headers,  \* get_csv_headers: the required names
    csv_headers,       \* get_csv_headers: outcome
    csv_row,           \* convert_sample_cell_count: the input row (one sample)
    sample_rows,       \* convert_sample_cell_count: outcome
    csv_rows,          \* convert_cell_count: the input rows
    output_csv,        \* convert_cell_count: outcome
    treatment_csv,     \* aggregator: treatment rows
    relative_csv,      \* aggregator: relative-count records
    sample_id,         \* get_sample_relative: the sample looked up
    sample_relative,   \* get_sample_relative: outcome
    responders,        \* calculate_responders: outcome (pair of mappings)
    fs,                \* the file system: what each path holds
    args,              \* main: the command line of the run
    arg_values,        \* main: the namespace parse_args returned
    rel_headers,       \* main: relative_headers, the mapping of the relative table (outcome)
    stdout,            \* main: messages printed to standard output, in order
    stderr,            \* main: warnings printed to standard error, in order
    displayed,         \* main: pyplot.show() was called
    exit_code          \* main: outcome of the run (returned code or exception)

\* The variables of a run of a command-line tool.
mainvars == <<fs, args, arg_values, rel_headers, stdout, stderr, displayed, exit_code>>

vars == <<pc, header_row, required_headers, csv_headers, csv_row, sample_rows, csv_rows,
          output_csv, treatment_csv, relative_csv, sample_id, sample_relative,
          responders, fs, args, arg_values, rel_headers, stdout, stderr, displayed,
          exit_code>>

(***************************************************************************)
(* Bounds of the model.                                                    *)
(***************************************************************************)
MaxHeaderLen == 3      \* longest header row of SpecHeaders
MaxRequired == 2       \* longest required-name list of SpecHeaders
MaxCount == 3          \* largest single cell count of SpecSample
MaxCsvRows == 2        \* most input rows of SpecConvert
MaxTreatmentRows == 2  \* most treatment rows of SpecCohort
MaxExtra == 1          \* most records appended to a generated relative table

(***************************************************************************)
(* Outcomes of calls.                                                      *)
(***************************************************************************)
NotCalled == [status |-> "none"]
Ok(v) == [status |-> "ok", value |-> v]
Raise(e) == [status |-> e]
IsOk(r) == r.status = "ok"

\* Python list indexing, zero-based.
At(list, i) == list[i + 1]

Range(list) == {list[i] : i \in 1..Len(list)}

\* list.index(x): zero-based position of the first occurrence of x.
index(list, x) == (CHOOSE i \in 1..Len(list) : list[i] = x /\ \A j \in 1..(i - 1) : list[j] # x) - 1

(***************************************************************************)
(* common.py constants.                                                    *)
(* StrEnum's functional API gives each member the lower-cased name as its  *)
(* value, so the five cell types are the strings below, in this order.     *)
(***************************************************************************)
CELL_TYPES == <<"b_cell", "cd8_t_cell", "cd4_t_cell", "nk_cell", "monocyte">>
SAMPLE_HEADER == "sample"

(***************************************************************************)
(* common.get_csv_headers                                                  *)
(***************************************************************************)
\* Variants of get_csv_headers with a plausible slip: one-based indices; the index of
\* the last occurrence instead of the first.
get_csv_headers_one_based(hrow, required) ==
    IF ~ \A i \in 1..Len(required) : required[i] \in Range(hrow)
    THEN Raise("ValueError")
    ELSE Ok([h \in Range(required) |-> index(hrow, h) + 1])
get_csv_headers_last_occurrence(hrow, required) ==
    IF ~ \A i \in 1..Len(required) : required[i] \in Range(hrow)
    THEN Raise("ValueError")
    ELSE Ok([h \in Range(required) |->
                (CHOOSE i \in 1..Len(hrow) :
                    hrow[i] = h /\ \A j \in (i + 1)..Len(hrow) : hrow[j] # h) - 1])
get_csv_headers(hrow, required) ==
    IF ~ \A i \in 1..Len(required) : required[i] \in Range(hrow)
    THEN Raise("ValueError")
    ELSE Ok([h \in Range(required) |-> index(hrow, h)])

(***************************************************************************)
(* Numeric text: str(int), int(str), float(str) and the "%.2f" format.     *)
(***************************************************************************)
Digits == <<"0", "1", "2", "3", "4", "5", "6", "7", "8", "9">>
IsDigit(c) == c \in Range(Digits)
DigitVal(c) == index(Digits, c)
DigitChar(d) == At(Digits, d)

\* str(n) for a non-negative int: its decimal digits, no leading zero.
RECURSIVE str(_)
str(n) == IF n < 10 THEN <<DigitChar(n)>> ELSE str(n \div 10) \o <<DigitChar(n % 10)>>

RECURSIVE DecimalValue(_)
DecimalValue(text) ==
    IF Len(text) = 0 THEN 0
    ELSE 10 * DecimalValue(SubSeq(text, 1, Len(text) - 1)) + DigitVal(text[Len(text)])

IsDigitText(text) == Len(text) > 0 /\ \A i \in 1..Len(text) : IsDigit(text[i])

\* int(text) on the texts of the model: a non-empty run of digits parses, anything
\* else raises ValueError.
int(text) == IF IsDigitText(text) THEN Ok(DecimalValue(text)) ELSE Raise("ValueError")

\* Position of the decimal point of a text, 0 when it has none.
PointAt(text) == IF "." \in Range(text) THEN index(text, ".") + 1 ELSE 0

\* float(text) on the texts of the model, valued in hundredths: digits, optionally
\* followed by a point and at most two digits; anything else raises ValueError.
float(text) ==
    LET p == PointAt(text)
        whole == IF p = 0 THEN text ELSE SubSeq(text, 1, p - 1)
        frac == IF p = 0 THEN <<>> ELSE SubSeq(text, p + 1, Len(text))
    IN  IF IsDigitText(whole) /\ Len(frac) <= 2 /\ (\A i \in 1..Len(frac) : IsDigit(frac[i]))
        THEN Ok(100 * DecimalValue(whole)
                + (IF Len(frac) = 0 THEN 0
                   ELSE IF Len(frac) = 1 THEN 10 * DecimalValue(frac)
                   ELSE DecimalValue(frac)))
        ELSE Raise("ValueError")

\* num/den rounded to the nearest integer, ties to even: what "%.2f" does to the
\* exact value.  (count / total) * 100 is exact in binary floating point whenever
\* its hundredths are a tie and total < 160, so the float follows the exact value.
\* Variant: truncation instead of rounding.
RoundDown(num, den) == num \div den
RoundHalfEven(num, den) ==
    LET q == num \div den
        r == num % den
    IN  IF 2 * r < den THEN q
        ELSE IF 2 * r > den THEN q + 1
        ELSE IF q % 2 = 0 THEN q ELSE q + 1

\* f"{x:.2f}" of a non-negative x given in hundredths.
format_2f(h) ==
    str(h \div 100) \o <<".">> \o <<DigitChar((h % 100) \div 10), DigitChar(h % 10)>>

(***************************************************************************)
(* relative_cell_counter.py                                                *)
(***************************************************************************)
OUTPUT_HEADERS == <<"sample", "total_count", "population", "count", "percentage">>

\* Variants of get_output_csv_row with a plausible slip: floor division for the
\* ratio; a placeholder percentage instead of the division error.
get_output_csv_row_floor_div(sample, total_count, population, count) ==
    IF total_count = 0 THEN Raise("ZeroDivisionError")
    ELSE Ok(<<sample, str(total_count), population, str(count),
              format_2f(10000 * (count \div total_count))>>)
get_output_csv_row_nan(sample, total_count, population, count) ==
    IF total_count = 0
    THEN Ok(<<sample, str(total_count), population, str(count), <<"n", "a", "n">>>>)
    ELSE Ok(<<sample, str(total_count), population, str(count),
              format_2f(RoundHalfEven(10000 * count, total_count))>>)
get_output_csv_row(sample, total_count, population, count) ==
    IF total_count = 0 THEN Raise("ZeroDivisionError")
    ELSE Ok(<<sample, str(total_count), population, str(count),
              format_2f(RoundHalfEven(10000 * count, total_count))>>)

\* The first k outcomes of a sequence of outcomes that failed, 0 when none did.
FirstFailure(outcomes) ==
    IF \E k \in 1..Len(outcomes) : ~IsOk(outcomes[k])
    THEN CHOOSE k \in 1..Len(outcomes) :
            ~IsOk(outcomes[k]) /\ \A j \in 1..(k - 1) : IsOk(outcomes[j])
    ELSE 0

RECURSIVE SumCounts(_, _)
SumCounts(counts, k) == IF k = 0 THEN 0 ELSE SumCounts(counts, k - 1) + counts[k]

convert_sample_cell_count(headers, row) ==
    LET parsed == [k \in 1..Len(CELL_TYPES) |-> int(At(row, headers[CELL_TYPES[k]]))]
    IN  IF FirstFailure(parsed) # 0 THEN parsed[FirstFailure(parsed)]
        ELSE
          LET cell_counts == [k \in 1..Len(CELL_TYPES) |-> parsed[k].value]
              total_count == SumCounts(cell_counts, Len(CELL_TYPES))
              sample == At(row, headers[SAMPLE_HEADER])
              rows == [k \in 1..Len(CELL_TYPES) |->
                          get_output_csv_row(sample, total_count, CELL_TYPES[k], cell_counts[k])]
          IN  IF FirstFailure(rows) # 0 THEN rows[FirstFailure(rows)]
              ELSE Ok([k \in 1..Len(CELL_TYPES) |-> rows[k].value])

\* Variant of the loop with a plausible slip: the records of a row are inserted right
\* after the header row instead of at the end.
RECURSIVE ExtendOutput_newest_first(_, _, _)
ExtendOutput_newest_first(headers, rows, out) ==
    IF Len(rows) = 0 THEN Ok(out)
    ELSE LET converted == convert_sample_cell_count(headers, Head(rows))
         IN  IF ~IsOk(converted) THEN converted
             ELSE ExtendOutput_newest_first(headers, Tail(rows),
                                            <<Head(out)>> \o converted.value \o Tail(out))

\* The loop of convert_cell_count over the rows still to convert.
RECURSIVE ExtendOutput(_, _, _)
ExtendOutput(headers, rows, out) ==
    IF Len(rows) = 0 THEN Ok(out)
    ELSE LET converted == convert_sample_cell_count(headers, Head(rows))
         IN  IF ~IsOk(converted) THEN converted
             ELSE ExtendOutput(headers, Tail(rows), out \o converted.value)

convert_cell_count(headers, rows) == ExtendOutput(headers, rows, <<OUTPUT_HEADERS>>)

(***************************************************************************)
(* cell_treatment_analyzer.py                                              *)
(***************************************************************************)
TREATMENT_HEADER == "treatment"
TREATMENT == "tr1"
SAMPLE_TYPE_HEADER == "sample_type"
INCLUDE_SAMPLE_TYPES == <<"PBMC">>
RESPONSE_HEADER == "response"
RESPONDING == "y"
NONRESPONDING == "n"
POPULATION == "population"
PERCENTAGE == "percentage"

EmptyDict == [k \in {} |-> 0]
\* d[k] = v on a dict: inserts the key or overwrites its value.
Put(d, k, v) == [x \in (DOMAIN d) \cup {k} |-> IF x = k THEN v ELSE d[x]]

\* bool(d.get(k)): None (absent key) and 0.0 are both falsy.
GetIsTruthy(d, k) == k \in DOMAIN d /\ d[k] # 0

\* The loop of get_sample_relative over the records still to scan.
RECURSIVE ScanRelative(_, _, _, _)
ScanRelative(relative_headers, records, sid, sample_responders) ==
    IF Len(records) = 0 THEN Ok(sample_responders)
    ELSE
      LET record == Head(records)
      IN  IF At(record, relative_headers[SAMPLE_HEADER]) # sid
          THEN ScanRelative(relative_headers, Tail(records), sid, sample_responders)
          ELSE
            LET cell_type == At(record, relative_headers[POPULATION])
                population_percentage == float(At(record, relative_headers[PERCENTAGE]))
            IN  IF GetIsTruthy(sample_responders, cell_type) THEN Raise("ValueError")
                ELSE IF ~IsOk(population_percentage) THEN population_percentage
                ELSE ScanRelative(relative_headers, Tail(records), sid,
                                  Put(sample_responders, cell_type, population_percentage.value))

get_sample_relative(relative_headers, records, sid) ==
    ScanRelative(relative_headers, records, sid, EmptyDict)

\* A treatment row passes the filter of calculate_responders.
\* Variant: the sample type is not looked at.
Qualifies_any_sample_type(treatment_headers, sample) ==
    At(sample, treatment_headers[TREATMENT_HEADER]) = TREATMENT
Qualifies(treatment_headers, sample) ==
    /\ At(sample, treatment_headers[TREATMENT_HEADER]) = TREATMENT
    /\ At(sample, treatment_headers[SAMPLE_TYPE_HEADER]) \in Range(INCLUDE_SAMPLE_TYPES)

\* population_counter[cell_type].append(relative_count) for every item of the
\* sample's mapping; a key the counter does not have raises KeyError.
\* Variant of the append loop with a plausible slip: a missing key is created
\* (setdefault) instead of raising.
AppendAll_setdefault(population_counter, sample_relative_count) ==
    Ok([ct \in (DOMAIN population_counter) \cup (DOMAIN sample_relative_count) |->
            IF ct \notin DOMAIN sample_relative_count THEN population_counter[ct]
            ELSE IF ct \in DOMAIN population_counter
                 THEN Append(population_counter[ct], sample_relative_count[ct])
                 ELSE <<sample_relative_count[ct]>>])
AppendAll(population_counter, sample_relative_count) ==
    IF ~ (DOMAIN sample_relative_count \subseteq DOMAIN population_counter)
    THEN Raise("KeyError")
    ELSE Ok([ct \in DOMAIN population_counter |->
                IF ct \in DOMAIN sample_relative_count
                THEN Append(population_counter[ct], sample_relative_count[ct])
                ELSE population_counter[ct]])

\* The loop of calculate_responders over the treatment rows still to visit.
RECURSIVE VisitSamples(_, _, _, _, _, _)
VisitSamples(treatment_headers, samples, relative_headers, records, population_responders, population_nonresponders) ==
    IF Len(samples) = 0 THEN Ok(<<population_responders, population_nonresponders>>)
    ELSE
      LET sample == Head(samples)
      IN  IF ~Qualifies(treatment_headers, sample)
          THEN VisitSamples(treatment_headers, Tail(samples), relative_headers, records,
                            population_responders, population_nonresponders)
          ELSE
            LET sid == At(sample, treatment_headers[SAMPLE_HEADER])
                sample_relative_count == get_sample_relative(relative_headers, records, sid)
                responding == At(sample, treatment_headers[RESPONSE_HEADER]) = RESPONDING
            IN  IF ~IsOk(sample_relative_count) THEN sample_relative_count
                ELSE
                  LET appended == AppendAll(IF responding THEN population_responders
                                            ELSE population_nonresponders,
                                            sample_relative_count.value)
                  IN  IF ~IsOk(appended) THEN appended
                      ELSE VisitSamples(treatment_headers, Tail(samples), relative_headers, records,
                                        IF responding THEN appended.value
                                        ELSE population_responders,
                                        IF responding THEN population_nonresponders
                                        ELSE appended.value)

calculate_responders(treatment_headers, samples, relative_headers, records) ==
    VisitSamples(treatment_headers, samples, relative_headers, records,
                 [ct \in Range(CELL_TYPES) |-> <<>>], [ct \in Range(CELL_TYPES) |-> <<>>])

(***************************************************************************)
(* Inputs.                                                                 *)
(***************************************************************************)
\* All sequences over S of length at most n.
SeqsUpTo(S, n) == UNION {[1..k -> S] : k \in 0..n}

\* The header row of the treatment table and the header mappings main builds.
TreatmentHeaderRow == <<"sample", "treatment", "sample_type", "response">> \o CELL_TYPES
RequiredTreatmentHeaders ==
    <<SAMPLE_HEADER, TREATMENT_HEADER, SAMPLE_TYPE_HEADER, RESPONSE_HEADER>> \o CELL_TYPES
TreatmentHeaders == get_csv_headers(TreatmentHeaderRow, RequiredTreatmentHeaders).value
RelativeHeaders == get_csv_headers(OUTPUT_HEADERS, OUTPUT_HEADERS).value

SampleIds == {"S1", "S2"}
TreatmentRow(sample, treatment, sample_type, response, counts) ==
    <<sample, treatment, sample_type, response>> \o counts

\* Count fields: the decimal texts of 0..MaxCount and one non-numeric text.
CountTexts == {str(n) : n \in 0..MaxCount} \cup {<<"x">>}
\* The example row of the specification: counts 10, 20, 30, 20, 20.
ExampleRow ==
    TreatmentRow("S1", "tr1", "PBMC", "y", <<str(10), str(20), str(30), str(20), str(20)>>)
SampleRows ==
    {TreatmentRow("S1", "tr1", "PBMC", "y", counts) : counts \in [1..5 -> CountTexts]}
        \cup {ExampleRow}

\* Count profiles of the rows of multi-row tables.
Zeros == <<str(0), str(0), str(0), str(0), str(0)>>
Ones == <<str(1), str(1), str(1), str(1), str(1)>>
NoBCell == <<str(0), str(1), str(1), str(1), str(1)>>
BadCount == <<str(1), <<"x">>, str(1), str(1), str(1)>>
ConvertRowPool ==
    {TreatmentRow(s, "tr1", "PBMC", "y", counts) :
        s \in SampleIds, counts \in {Zeros, Ones, NoBCell, BadCount}}

\* Treatment rows of the aggregator: every response flag for the rows that pass the
\* filter, and rows that fail it on the treatment or on the sample type.
CohortRowPool ==
    {TreatmentRow(s, "tr1", "PBMC", r, Ones) : s \in SampleIds, r \in {"y", "n", ""}}
        \cup {TreatmentRow("S1", "tr2", "PBMC", "y", Ones),
              TreatmentRow("S1", "tr1", "Tumor", "y", Ones),
              TreatmentRow("S2", "tr2", "Tumor", "n", Ones)}

\* Relative-count tables of the aggregator: the records convert_cell_count generates
\* for some samples, followed by at most MaxExtra further records.
RelativeSources ==
    {s1 \o s2 :
        s1 \in {<<>>, <<TreatmentRow("S1", "tr1", "PBMC", "y", NoBCell)>>,
                <<TreatmentRow("S1", "tr1", "PBMC", "y", Ones)>>},
        s2 \in {<<>>, <<TreatmentRow("S2", "tr1", "PBMC", "n", Ones)>>}}
ExtraRecords ==
    {<<"S1", str(4), "b_cell", str(1), <<"2", "5", ".", "0", "0">>>>,
     <<"S1", str(4), "other", str(1), <<"2", "5", ".", "0", "0">>>>,
     <<"S2", str(4), "b_cell", str(0), <<"0", ".", "0", "0">>>>}
RelativeTables ==
    {Tail(convert_cell_count(TreatmentHeaders, source).value) \o extra :
        source \in RelativeSources, extra \in SeqsUpTo(ExtraRecords, MaxExtra)}

(***************************************************************************)
(* Specifications.  Each applies the functions of one component to inputs  *)
(* drawn by its Init.                                                      *)
(***************************************************************************)
Idle ==
    /\ pc = "start"
    /\ csv_headers = NotCalled
    /\ sample_rows = NotCalled
    /\ output_csv = NotCalled
    /\ sample_relative = NotCalled
    /\ responders = NotCalled
    /\ sample_id = ""
    /\ fs = <<>> /\ args = <<>> /\ arg_values = <<>>
    /\ rel_headers = NotCalled
    /\ stdout = <<>> /\ stderr = <<>>
    /\ displayed = FALSE
    /\ exit_code = NotCalled

\* ---- header resolver ----
HeaderNames == {"sample", "Sample", "treatment"}

InitHeaders ==
    /\ Idle
    /\ header_row \in SeqsUpTo(HeaderNames, MaxHeaderLen)
    /\ required_headers \in SeqsUpTo(HeaderNames, MaxRequired)
    /\ csv_row = <<>> /\ csv_rows = <<>> /\ treatment_csv = <<>> /\ relative_csv = <<>>

GetCsvHeaders ==
    /\ pc = "start"
    /\ csv_headers' = get_csv_headers(header_row, required_headers)
    /\ pc' = "resolved"
    /\ UNCHANGED <<header_row, required_headers, csv_row, sample_rows, csv_rows, output_csv,
                   treatment_csv, relative_csv, sample_id, sample_relative, responders>>
    /\ UNCHANGED mainvars

NextHeaders == GetCsvHeaders
SpecHeaders == InitHeaders /\ [][NextHeaders]_vars

\* ---- converter, one sample ----
InitSample ==
    /\ Idle
    /\ csv_row \in SampleRows
    /\ header_row = TreatmentHeaderRow /\ required_headers = RequiredTreatmentHeaders
    /\ csv_rows = <<>> /\ treatment_csv = <<>> /\ relative_csv = <<>>

ConvertSampleCellCount ==
    /\ pc = "start"
    /\ sample_rows' = convert_sample_cell_count(TreatmentHeaders, csv_row)
    /\ pc' = "converted"
    /\ UNCHANGED <<header_row, required_headers, csv_headers, csv_row, csv_rows, output_csv,
                   treatment_csv, relative_csv, sample_id, sample_relative, responders>>
    /\ UNCHANGED mainvars

NextSample == ConvertSampleCellCount
SpecSample == InitSample /\ [][NextSample]_vars

\* ---- converter, whole table ----
InitConvert ==
    /\ Idle
    /\ csv_rows \in SeqsUpTo(ConvertRowPool, MaxCsvRows)
    /\ header_row = TreatmentHeaderRow /\ required_headers = RequiredTreatmentHeaders
    /\ csv_row = <<>> /\ treatment_csv = <<>> /\ relative_csv = <<>>

ConvertCellCount ==
    /\ pc = "start"
    /\ output_csv' = convert_cell_count(TreatmentHeaders, csv_rows)
    /\ pc' = "converted"
    /\ UNCHANGED <<header_row, required_headers, csv_headers, csv_row, sample_rows, csv_rows,
                   treatment_csv, relative_csv, sample_id, sample_relative, responders>>
    /\ UNCHANGED mainvars

NextConvert == ConvertCellCount
SpecConvert == InitConvert /\ [][NextConvert]_vars

\* ---- cohort aggregator ----
InitCohort ==
    /\ Idle
    /\ treatment_csv \in SeqsUpTo(CohortRowPool, MaxTreatmentRows)
    /\ relative_csv \in RelativeTables
    /\ header_row = TreatmentHeaderRow /\ required_headers = RequiredTreatmentHeaders
    /\ csv_row = <<>> /\ csv_rows = <<>>

GetSampleRelative ==
    /\ pc = "start"
    /\ \E sid \in SampleIds :
          /\ sample_id' = sid
          /\ sample_relative' = get_sample_relative(RelativeHeaders, relative_csv, sid)
    /\ pc' = "looked up"
    /\ UNCHANGED <<header_row, required_headers, csv_headers, csv_row, sample_rows, csv_rows,
                   output_csv, treatment_csv, relative_csv, responders>>
    /\ UNCHANGED mainvars

CalculateResponders ==
    /\ pc = "start"
    /\ responders' = calculate_responders(TreatmentHeaders, treatment_csv,
                                          RelativeHeaders, relative_csv)
    /\ pc' = "aggregated"
    /\ UNCHANGED <<header_row, required_headers, csv_headers, csv_row, sample_rows, csv_rows,
                   output_csv, treatment_csv, relative_csv, sample_id, sample_relative>>
    /\ UNCHANGED mainvars

NextCohort == GetSampleRelative \/ CalculateResponders
SpecCohort == InitCohort /\ [][NextCohort]_vars

(***************************************************************************)
(* The file system and the output streams.                                 *)
(*  - fs maps each path to what it holds: nothing, a directory (with the   *)
(*    names of its files) or a regular file (its CSV rows and the          *)
(*    delimiter they were written with).                                   *)
(*  - A path in a message is the sequence of its components.               *)
(***************************************************************************)
Paths == {"p", "q"}
None == "<None>"
DEFAULT_DELIMITER == ","
Delimiters == {DEFAULT_DELIMITER, ";"}

Absent == [kind |-> "absent", files |-> {}, rows |-> <<>>, delimiter |-> ""]
Directory(files) == [kind |-> "dir", files |-> files, rows |-> <<>>, delimiter |-> ""]
RegularFile(rows, delimiter) == [kind |-> "file", files |-> {}, rows |-> rows, delimiter |-> delimiter]

exists(files, path) == files[path].kind # "absent"
isfile(files, path) == files[path].kind = "file"
isdir(files, path) == files[path].kind = "dir"

Message(text, path, rows) == [text |-> text, path |-> path, rows |-> rows]
WroteCsv(path) == Message("Wrote output CSV to", <<path>>, <<>>)
CsvOnStdout(rows) == Message("csv rows", <<>>, rows)
CannotWriteCsv(path) == Message("Couldn't write CSV file: path exists, yet is not a file", <<path>>, <<>>)
CannotSaveBoxplots(path) == Message("Warning: Can not save boxplots: path exists but is not a directory", <<path>>, <<>>)
ImageName(cell_type) == <<cell_type, ".png">>
SavedPlot(path, cell_type) == Message("Saved plot as", <<path, ImageName(cell_type)>>, <<>>)
DisplayingCharts == Message("Displaying all charts in separate windows", <<>>, <<>>)

\* csv.reader over a stored file: with the delimiter the file was written with, its
\* rows; with another delimiter every line is a single field.
ReadLines(file, delimiter) ==
    IF file.delimiter = delimiter THEN file.rows
    ELSE [i \in 1..Len(file.rows) |-> <<"<undivided line>">>]

\* common.read_csv on the rows csv.reader yields.
read_csv(lines, required) ==
    IF Len(lines) = 0 THEN Raise("ValueError")
    ELSE LET headers == get_csv_headers(Head(lines), required)
         IN  IF ~IsOk(headers) THEN headers
             ELSE Ok([headers |-> headers.value, rows |-> Tail(lines)])

\* common.write_csv: the outcome, the file system and standard output after the call.
\* open(path, 'w') creates or truncates a file and fails on a directory.
write_csv(files, out, output_file, rows, delimiter) ==
    IF output_file = None
    THEN [outcome |-> Ok(None), fs |-> files, stdout |-> Append(out, CsvOnStdout(rows))]
    ELSE IF isdir(files, output_file)
    THEN [outcome |-> Raise("IsADirectoryError"), fs |-> files, stdout |-> out]
    ELSE [outcome |-> Ok(None),
          fs |-> [files EXCEPT ![output_file] = RegularFile(rows, delimiter)],
          stdout |-> Append(out, WroteCsv(output_file))]

(***************************************************************************)
(* cell_treatment_analyzer.main, one action per stage.  A run starts with  *)
(* parse_args on a fresh command line, whatever earlier runs left in the   *)
(* file system.                                                            *)
(***************************************************************************)
\* Treatment files given to the tools, as the rows csv.reader yields with the run's
\* delimiter: two valid tables, a table with two qualifying rows of one sample, a
\* zero-total row, a non-numeric count, a header row without the response column,
\* and an empty file.
HeaderWithoutResponse == <<"sample", "treatment", "sample_type">> \o CELL_TYPES
TableA == <<TreatmentHeaderRow, TreatmentRow("S1", "tr1", "PBMC", "y", Ones)>>
TableB == <<TreatmentHeaderRow, TreatmentRow("S2", "tr1", "PBMC", "n", NoBCell)>>
TableTwice == <<TreatmentHeaderRow, TreatmentRow("S1", "tr1", "PBMC", "y", Ones), TreatmentRow("S1", "tr1", "PBMC", "n", Ones)>>
TableZero == <<TreatmentHeaderRow, TreatmentRow("S1", "tr1", "PBMC", "y", Zeros)>>
TableBad == <<TreatmentHeaderRow, TreatmentRow("S1", "tr1", "PBMC", "y", BadCount)>>
TableNoResponse == <<HeaderWithoutResponse, <<"S1", "tr1", "PBMC">> \o Ones>>
TreatmentFiles == {TableA, TableB, TableTwice, TableZero, TableBad, TableNoResponse, <<>>}

AnalyzerArgs ==
    [treatment_csv : TreatmentFiles, relative_csv : Paths \cup {None},
     boxplot_dir : Paths \cup {None}, delimiter : Delimiters]

\* File systems before the first run: each path is absent or an empty directory.
InitialFileSystems == [Paths -> {Absent, Directory({})}]

\* cell_treatment_analyzer.parse_args: the namespace and the warnings.
parse_args(files, a) ==
    IF a.boxplot_dir # None /\ exists(files, a.boxplot_dir) /\ ~isdir(files, a.boxplot_dir)
    THEN [namespace |-> [a EXCEPT !.boxplot_dir = None],
          warnings |-> <<CannotSaveBoxplots(a.boxplot_dir)>>]
    ELSE [namespace |-> a, warnings |-> <<>>]

ParseArgs ==
    /\ pc \in {"idle", "exit"}
    /\ \E a \in AnalyzerArgs :
          /\ args' = a
          /\ arg_values' = parse_args(fs, a).namespace
          /\ stderr' = parse_args(fs, a).warnings
    /\ pc' = "parsed"
    /\ header_row' = <<>> /\ required_headers' = <<>> /\ csv_headers' = NotCalled
    /\ treatment_csv' = <<>> /\ relative_csv' = <<>>
    /\ rel_headers' = NotCalled /\ responders' = NotCalled
    /\ stdout' = <<>> /\ displayed' = FALSE /\ exit_code' = NotCalled
    /\ UNCHANGED <<fs, csv_row, sample_rows, csv_rows, output_csv, sample_id, sample_relative>>

\* main, lines 226-229: the treatment table is read and its header resolved.
ReadTreatment ==
    /\ pc = "parsed"
    /\ required_headers' = RequiredTreatmentHeaders
    /\ header_row' = IF Len(args.treatment_csv) = 0 THEN <<>> ELSE Head(args.treatment_csv)
    /\ LET read == read_csv(args.treatment_csv, RequiredTreatmentHeaders)
       IN  IF IsOk(read)
           THEN /\ csv_headers' = Ok(read.value.headers)
                /\ treatment_csv' = read.value.rows
                /\ pc' = "read"
                /\ UNCHANGED exit_code
           ELSE /\ csv_headers' = read
                /\ exit_code' = read
                /\ pc' = "exit"
                /\ UNCHANGED treatment_csv
    /\ UNCHANGED <<csv_row, sample_rows, csv_rows, output_csv, relative_csv, sample_id,
                   sample_relative, responders, fs, args, arg_values, rel_headers, stdout,
                   stderr, displayed>>

\* main, line 231: the table is generated unless a regular file is at the given path.
ShouldGenerate_always(files, path) == TRUE
ShouldGenerate(files, path) == path = None \/ ~isfile(files, path)

\* main, lines 231-246: the relative-count table is generated (and written when the
\* path is free) or read from the file at the given path.
MakeRelative ==
    /\ pc = "read"
    /\ LET path == arg_values.relative_csv
       IN  IF ShouldGenerate(fs, path)
           THEN LET generated == convert_cell_count(csv_headers.value, treatment_csv)
                IN  IF ~IsOk(generated)
                    THEN /\ exit_code' = generated
                         /\ pc' = "exit"
                         /\ UNCHANGED <<relative_csv, rel_headers, fs, stdout, stderr>>
                    ELSE /\ relative_csv' = Tail(generated.value)
                         /\ rel_headers' = get_csv_headers(Head(generated.value), OUTPUT_HEADERS)
                         /\ pc' = "relative"
                         /\ UNCHANGED exit_code
                         /\ IF path = None THEN UNCHANGED <<fs, stdout, stderr>>
                            ELSE IF ~exists(fs, path)
                            THEN LET written == write_csv(fs, stdout, path,
                                                          <<OUTPUT_HEADERS>> \o Tail(generated.value),
                                                          arg_values.delimiter)
                                 IN  /\ fs' = written.fs
                                     /\ stdout' = written.stdout
                                     /\ UNCHANGED stderr
                            ELSE /\ stderr' = Append(stderr, CannotWriteCsv(path))
                                 /\ UNCHANGED <<fs, stdout>>
           ELSE LET read == read_csv(ReadLines(fs[path], arg_values.delimiter), OUTPUT_HEADERS)
                IN  IF IsOk(read)
                    THEN /\ rel_headers' = Ok(read.value.headers)
                         /\ relative_csv' = read.value.rows
                         /\ pc' = "relative"
                         /\ UNCHANGED <<exit_code, fs, stdout, stderr>>
                    ELSE /\ exit_code' = read
                         /\ pc' = "exit"
                         /\ UNCHANGED <<relative_csv, rel_headers, fs, stdout, stderr>>
    /\ UNCHANGED <<header_row, required_headers, csv_headers, csv_row, sample_rows, csv_rows,
                   output_csv, treatment_csv, sample_id, sample_relative, responders, args,
                   arg_values, displayed>>

\* main, line 248: generate_boxplots aggregates the cohorts and draws one figure per
\* cell type.
GenerateBoxplots ==
    /\ pc = "relative"
    /\ LET aggregated == calculate_responders(csv_headers.value, treatment_csv,
                                              rel_headers.value, relative_csv)
       IN  /\ responders' = aggregated
           /\ IF IsOk(aggregated)
              THEN pc' = "plotted" /\ UNCHANGED exit_code
              ELSE pc' = "exit" /\ exit_code' = aggregated
    /\ UNCHANGED <<header_row, required_headers, csv_headers, csv_row, sample_rows, csv_rows,
                   output_csv, treatment_csv, relative_csv, sample_id, sample_relative, fs,
                   args, arg_values, rel_headers, stdout, stderr, displayed>>

\* The "Saved ... plot" messages of the cell types from the k-th on.
RECURSIVE SavedPlots(_, _)
SavedPlots(path, k) ==
    IF k > Len(CELL_TYPES) THEN <<>>
    ELSE <<SavedPlot(path, CELL_TYPES[k])>> \o SavedPlots(path, k + 1)

\* main, lines 249-259: the figures are saved under the directory (created when
\* missing; os.makedirs fails when the path is a file) or shown; main returns 0.
SaveOrShow ==
    /\ pc = "plotted"
    /\ LET path == arg_values.boxplot_dir
       IN  IF path # None
           THEN IF isfile(fs, path)
                THEN /\ exit_code' = Raise("FileExistsError")
                     /\ UNCHANGED <<fs, stdout, displayed>>
                ELSE /\ fs' = [fs EXCEPT ![path] =
                                  Directory(fs[path].files \cup {ImageName(ct) : ct \in Range(CELL_TYPES)})]
                     /\ stdout' = stdout \o SavedPlots(path, 1)
                     /\ exit_code' = Ok(0)
                     /\ UNCHANGED displayed
           ELSE /\ stdout' = Append(stdout, DisplayingCharts)
                /\ displayed' = TRUE
                /\ exit_code' = Ok(0)
                /\ UNCHANGED fs
    /\ pc' = "exit"
    /\ UNCHANGED <<header_row, required_headers, csv_headers, csv_row, sample_rows, csv_rows,
                   output_csv, treatment_csv, relative_csv, sample_id, sample_relative,
                   responders, args, arg_values, rel_headers, stderr>>

InitMain ==
    /\ pc = "idle"
    /\ fs \in InitialFileSystems
    /\ args = <<>> /\ arg_values = <<>>
    /\ header_row = <<>> /\ required_headers = <<>> /\ csv_headers = NotCalled
    /\ csv_row = <<>> /\ sample_rows = NotCalled /\ csv_rows = <<>> /\ output_csv = NotCalled
    /\ treatment_csv = <<>> /\ relative_csv = <<>>
    /\ sample_id = "" /\ sample_relative = NotCalled /\ responders = NotCalled
    /\ rel_headers = NotCalled
    /\ stdout = <<>> /\ stderr = <<>> /\ displayed = FALSE /\ exit_code = NotCalled

NextMain == ParseArgs \/ ReadTreatment \/ MakeRelative \/ GenerateBoxplots \/ SaveOrShow
SpecMain == InitMain /\ [][NextMain]_vars

(***************************************************************************)
(* The standalone converter, in its two copies: relative_cell_counter.main *)
(* (built on common) and relative_cell_counts.main (self-contained).  Each *)
(* run is one action.                                                      *)
(***************************************************************************)
\* Python values that list concatenation tells apart: a list and an Enum class.
ListValue(items) == [type |-> "list", items |-> items]
EnumType(members) == [type |-> "EnumType", items |-> members]
list_of(iterable) == ListValue(iterable.items)

\* list.__add__: only another list can be concatenated to a list.
list_add(left, right) ==
    IF right.type = "list" THEN Ok(ListValue(left.items \o right.items))
    ELSE Raise("TypeError")

CounterFiles == TreatmentFiles
Tools == {"relative_cell_counter", "relative_cell_counts"}
CounterArgs ==
    [tool : Tools, csv_file : CounterFiles, output : Paths \cup {None}, delimiter : Delimiters]

\* The body both copies share after the required headers are built: read_csv,
\* convert_cell_count, write_csv, return 0.
RunConverter(files, out, a, required) ==
    LET read == read_csv(a.csv_file, required)
        failed(outcome) == [exit_code |-> outcome, fs |-> files, stdout |-> out,
                            csv_headers |-> IF IsOk(read) THEN Ok(read.value.headers) ELSE read,
                            csv_rows |-> IF IsOk(read) THEN read.value.rows ELSE <<>>,
                            output_csv |-> IF IsOk(read) THEN outcome ELSE NotCalled]
    IN  IF ~IsOk(read) THEN failed(read)
        ELSE LET converted == convert_cell_count(read.value.headers, read.value.rows)
             IN  IF ~IsOk(converted) THEN failed(converted)
                 ELSE LET written == write_csv(files, out, a.output, converted.value, a.delimiter)
                      IN  [exit_code |-> IF IsOk(written.outcome) THEN Ok(0) ELSE written.outcome,
                           fs |-> written.fs, stdout |-> written.stdout,
                           csv_headers |-> Ok(read.value.headers),
                           csv_rows |-> read.value.rows,
                           output_csv |-> converted]

\* relative_cell_counter.main, line 133, and relative_cell_counts.get_csv_headers,
\* line 80: the required-header list.
counter_required_headers == list_add(ListValue(<<SAMPLE_HEADER>>), EnumType(CELL_TYPES))
counts_required_headers == list_add(ListValue(<<SAMPLE_HEADER>>), list_of(EnumType(CELL_TYPES)))

ApplyRun(run) ==
    /\ exit_code' = run.exit_code
    /\ fs' = run.fs
    /\ stdout' = run.stdout
    /\ csv_headers' = run.csv_headers
    /\ csv_rows' = run.csv_rows
    /\ output_csv' = run.output_csv

NothingRun(outcome) ==
    [exit_code |-> outcome, fs |-> fs, stdout |-> <<>>, csv_headers |-> NotCalled,
     csv_rows |-> <<>>, output_csv |-> NotCalled]

CounterMain ==
    /\ pc \in {"idle", "exit"}
    /\ \E a \in CounterArgs :
          /\ a.tool = "relative_cell_counter"
          /\ args' = a
          /\ arg_values' = a
          /\ required_headers' = IF IsOk(counter_required_headers)
                                 THEN counter_required_headers.value.items ELSE <<>>
          /\ IF IsOk(counter_required_headers)
             THEN ApplyRun(RunConverter(fs, <<>>, a, counter_required_headers.value.items))
             ELSE ApplyRun(NothingRun(counter_required_headers))
    /\ pc' = "exit"
    /\ UNCHANGED <<header_row, csv_row, sample_rows, treatment_csv, relative_csv, sample_id,
                   sample_relative, responders, rel_headers, stderr, displayed>>

CountsMain ==
    /\ pc \in {"idle", "exit"}
    /\ \E a \in CounterArgs :
          /\ a.tool = "relative_cell_counts"
          /\ args' = a
          /\ arg_values' = a
          /\ required_headers' = IF IsOk(counts_required_headers)
                                 THEN counts_required_headers.value.items ELSE <<>>
          /\ IF IsOk(counts_required_headers)
             THEN ApplyRun(RunConverter(fs, <<>>, a, counts_required_headers.value.items))
             ELSE ApplyRun(NothingRun(counts_required_headers))
    /\ pc' = "exit"
    /\ UNCHANGED <<header_row, csv_row, sample_rows, treatment_csv, relative_csv, sample_id,
                   sample_relative, responders, rel_headers, stderr, displayed>>

InitCounter == InitMain
NextCounter == CounterMain \/ CountsMain
SpecCounter == InitCounter /\ [][NextCounter]_vars

(***************************************************************************)
(* Properties of the header resolver (SpecHeaders).                        *)
(***************************************************************************)
Occurrences(list, x) == {j \in 1..Len(list) : list[j] = x}
MissingRequired ==
    \E i \in 1..Len(required_headers) :
        \A j \in 1..Len(header_row) : header_row[j] # required_headers[i]

\* C8: get_csv_headers raises ValueError exactly when some required name does not
\* occur (exact, case-sensitive match) in the header row; otherwise it returns a
\* mapping whose keys are exactly the required names and that sends each name h to a
\* zero-based index at which the header row holds h.
C8_HeaderContract ==
    pc = "resolved" =>
        /\ (csv_headers.status = "ValueError") <=> MissingRequired
        /\ ~MissingRequired =>
              /\ IsOk(csv_headers)
              /\ DOMAIN csv_headers.value = Range(required_headers)
              /\ \A h \in Range(required_headers) :
                    /\ csv_headers.value[h] \in 0..(Len(header_row) - 1)
                    /\ At(header_row, csv_headers.value[h]) = h

\* Witness of C8: a mapping is returned for two distinct required names of a header
\* row that lists them in the other order and has an extra column.
C8_Witness ==
    /\ pc = "resolved" /\ IsOk(csv_headers)
    /\ Len(required_headers) = 2 /\ Len(header_row) = 3
    /\ required_headers[1] # required_headers[2]
    /\ header_row[3] = required_headers[1]
    /\ header_row[1] = required_headers[2]
    /\ header_row[2] \notin Range(required_headers)

\* C9 as claimed: whenever a mapping is returned, every required name occurs exactly
\* once in the header row.
C9_ExactlyOnce ==
    pc = "resolved" /\ IsOk(csv_headers) =>
        \A h \in Range(required_headers) : Cardinality(Occurrences(header_row, h)) = 1

\* C9 as amended: whenever a mapping is returned, every required name occurs at least
\* once in the header row and is mapped to the index of its first occurrence; a
\* header row that repeats a required name is accepted.
C9_FirstOccurrence ==
    pc = "resolved" /\ IsOk(csv_headers) =>
        \A h \in Range(required_headers) :
            /\ Occurrences(header_row, h) # {}
            /\ \A j \in Occurrences(header_row, h) : csv_headers.value[h] + 1 <= j
            /\ csv_headers.value[h] + 1 \in Occurrences(header_row, h)

\* Witness of C9: a mapping is returned for a header row that holds a required name
\* twice.
C9_Witness ==
    /\ pc = "resolved" /\ IsOk(csv_headers)
    /\ \E h \in Range(required_headers) : Cardinality(Occurrences(header_row, h)) = 2

(***************************************************************************)
(* Properties of the converter on one sample (SpecSample).                 *)
(***************************************************************************)
CountField(row, k) == At(row, TreatmentHeaders[CELL_TYPES[k]])
AllCountsParse(row) == \A k \in 1..Len(CELL_TYPES) : IsDigitText(CountField(row, k))
CountOf(row, k) == DecimalValue(CountField(row, k))
TotalOf(row) == CountOf(row, 1) + CountOf(row, 2) + CountOf(row, 3) + CountOf(row, 4) + CountOf(row, 5)
Abs(n) == IF n < 0 THEN -n ELSE n

\* The percentage text of a record read back as a number, in hundredths.
PercentageOf(record) == float(At(record, RelativeHeaders[PERCENTAGE])).value
PercentageSum(records) ==
    PercentageOf(records[1]) + PercentageOf(records[2]) + PercentageOf(records[3])
        + PercentageOf(records[4]) + PercentageOf(records[5])

\* C4 as claimed: the five percentages of a converted sample, read back as numbers,
\* sum to a value within 0.01 of 100.00.
C4_SumWithinOneHundredth ==
    pc = "converted" /\ IsOk(sample_rows) =>
        Abs(PercentageSum(sample_rows.value) - 10000) <= 1

\* C4 as amended: the five percentages of a converted sample, read back as numbers,
\* sum to a value within 0.02 of 100.00.
C4_SumWithinTwoHundredths ==
    pc = "converted" /\ IsOk(sample_rows) =>
        Abs(PercentageSum(sample_rows.value) - 10000) <= 2

\* Witness of C4: a converted sample whose percentages sum to 100.02.
C4_Witness ==
    /\ pc = "converted" /\ IsOk(sample_rows)
    /\ PercentageSum(sample_rows.value) = 10002

\* A text is digits, a point, and exactly two digits.
HasTwoDecimals(text) ==
    /\ Len(text) >= 4
    /\ text[Len(text) - 2] = "."
    /\ \A i \in 1..Len(text) : i # Len(text) - 2 => IsDigit(text[i])

\* C5: a row whose five counts parse with a non-zero sum T converts to five records
\* (sample id, T, cell type, own count, percentage): T is the same in all five, the
\* percentage text has exactly two decimals and is the hundredth nearest to
\* 100*count/T; the example row 10,20,30,20,20 gives (S1,100,b_cell,10,"10.00") and
\* (S1,100,cd4_t_cell,30,"30.00").
C5_RecordContent ==
    pc = "converted" /\ AllCountsParse(csv_row) /\ TotalOf(csv_row) # 0 =>
        /\ IsOk(sample_rows)
        /\ Len(sample_rows.value) = 5
        /\ \A k \in 1..5 :
              LET record == sample_rows.value[k]
              IN  /\ Len(record) = 5
                  /\ record[1] = At(csv_row, TreatmentHeaders[SAMPLE_HEADER])
                  /\ IsDigitText(record[2]) /\ DecimalValue(record[2]) = TotalOf(csv_row)
                  /\ record[3] = CELL_TYPES[k]
                  /\ IsDigitText(record[4]) /\ DecimalValue(record[4]) = CountOf(csv_row, k)
                  /\ HasTwoDecimals(record[5])
                  /\ 2 * Abs(PercentageOf(record) * TotalOf(csv_row)
                             - 10000 * CountOf(csv_row, k)) <= TotalOf(csv_row)
        /\ csv_row = ExampleRow =>
              /\ sample_rows.value[1] =
                    <<"S1", <<"1", "0", "0">>, "b_cell", <<"1", "0">>,
                      <<"1", "0", ".", "0", "0">>>>
              /\ sample_rows.value[3] =
                    <<"S1", <<"1", "0", "0">>, "cd4_t_cell", <<"3", "0">>,
                      <<"3", "0", ".", "0", "0">>>>

\* Witness of C5: the example row has been converted.
C5_Witness == pc = "converted" /\ csv_row = ExampleRow /\ IsOk(sample_rows)

(***************************************************************************)
(* Properties of the converter on a table (SpecConvert).                   *)
(***************************************************************************)
ZeroTotalRows == {i \in 1..Len(csv_rows) : AllCountsParse(csv_rows[i]) /\ TotalOf(csv_rows[i]) = 0}

\* C6 as claimed: if any input row has a total count of 0, convert_cell_count raises
\* a division-by-zero error (and so returns no table).
C6_ZeroTotalRaisesDivision ==
    pc = "converted" /\ ZeroTotalRows # {} => output_csv.status = "ZeroDivisionError"

\* C6 as amended: if any input row has a total count of 0, convert_cell_count raises
\* an error and returns no table; the error is the division by zero when every row
\* before the first zero-total row has five integer counts, and the parsing error of
\* the first malformed row otherwise.
C6_ZeroTotalRaises ==
    pc = "converted" /\ ZeroTotalRows # {} =>
        LET first == CHOOSE i \in ZeroTotalRows : \A j \in ZeroTotalRows : i <= j
        IN  IF \A j \in 1..(first - 1) : AllCountsParse(csv_rows[j])
            THEN output_csv.status = "ZeroDivisionError"
            ELSE output_csv.status = "ValueError"

\* Witness of C6: a table whose first row converts and whose second row has total 0
\* was refused with a division by zero.
C6_Witness ==
    /\ pc = "converted" /\ Len(csv_rows) = 2
    /\ AllCountsParse(csv_rows[1]) /\ TotalOf(csv_rows[1]) > 0
    /\ 2 \in ZeroTotalRows
    /\ output_csv.status = "ZeroDivisionError"

(***************************************************************************)
(* Properties of the cohort aggregator (SpecCohort).                       *)
(***************************************************************************)
SampleOf(record) == At(record, RelativeHeaders[SAMPLE_HEADER])
PopulationOf(record) == At(record, RelativeHeaders[POPULATION])
SampleIdOf(row) == At(row, TreatmentHeaders[SAMPLE_HEADER])
ResponseOf(row) == At(row, TreatmentHeaders[RESPONSE_HEADER])
\* The filter as the specification words it.
PassesFilter(row) ==
    /\ At(row, TreatmentHeaders[TREATMENT_HEADER]) = "tr1"
    /\ At(row, TreatmentHeaders[SAMPLE_TYPE_HEADER]) = "PBMC"
QualifyingRows == {i \in 1..Len(treatment_csv) : PassesFilter(treatment_csv[i])}
RecordsOf(sid, population) ==
    {i \in 1..Len(relative_csv) :
        SampleOf(relative_csv[i]) = sid /\ PopulationOf(relative_csv[i]) = population}

\* C1: when the table holds two or more records with the looked-up sample id and the
\* same population, get_sample_relative raises, whatever the earlier percentage is
\* (0.00 included).
C1_DuplicateRaises ==
    pc = "looked up"
        /\ (\E i, j \in 1..Len(relative_csv) :
               /\ i < j
               /\ SampleOf(relative_csv[i]) = sample_id
               /\ SampleOf(relative_csv[j]) = sample_id
               /\ PopulationOf(relative_csv[i]) = PopulationOf(relative_csv[j]))
        => sample_relative.status = "ValueError"

Returned == pc = "aggregated" /\ IsOk(responders)
population_responders == responders.value[1]
population_nonresponders == responders.value[2]

\* C2: whenever calculate_responders returns, for each cell type the
\* responder and non-responder lists together hold as many entries as there are
\* treatment rows with treatment "tr1" and sample type "PBMC".
C2_EntriesEqualQualifyingRows ==
    Returned =>
        \A ct \in Range(CELL_TYPES) :
            Len(population_responders[ct]) + Len(population_nonresponders[ct])
                = Cardinality(QualifyingRows)

\* The percentages (in row order) of the qualifying rows with a given response flag
\* whose sample has a record of the cell type.
RECURSIVE Contributions(_, _, _)
Contributions(rows, flag, ct) ==
    IF Len(rows) = 0 THEN <<>>
    ELSE
      LET row == Head(rows)
          found == get_sample_relative(RelativeHeaders, relative_csv, SampleIdOf(row))
      IN  (IF PassesFilter(row) /\ ResponseOf(row) = flag /\ ct \in DOMAIN found.value
           THEN <<found.value[ct]>> ELSE <<>>)
              \o Contributions(Tail(rows), flag, ct)

\* C3: whenever calculate_responders returns, each responder list holds exactly the
\* percentages of the qualifying rows whose response is "y" and each non-responder
\* list exactly those of the qualifying rows whose response is "n".
C3_PartitionByFlag ==
    Returned =>
        \A ct \in Range(CELL_TYPES) :
            /\ population_responders[ct] = Contributions(treatment_csv, RESPONDING, ct)
            /\ population_nonresponders[ct] = Contributions(treatment_csv, NONRESPONDING, ct)

RemoveAt(list, i) == SubSeq(list, 1, i - 1) \o SubSeq(list, i + 1, Len(list))

\* C7: a treatment row whose treatment is not "tr1" or whose sample type is not
\* "PBMC" does not change the outcome of calculate_responders: the outcome equals the
\* outcome for the table without that row.
C7_FilterExclusion ==
    pc = "aggregated" =>
        \A i \in (1..Len(treatment_csv)) \ QualifyingRows :
            responders = calculate_responders(TreatmentHeaders, RemoveAt(treatment_csv, i),
                                              RelativeHeaders, relative_csv)

\* Witness of C7: the aggregator returned a non-empty cohort for a table that also
\* holds a non-qualifying row whose sample has records in the relative table.
C7_Witness ==
    /\ Returned
    /\ \E i \in (1..Len(treatment_csv)) \ QualifyingRows :
          RecordsOf(SampleIdOf(treatment_csv[i]), "b_cell") # {}
    /\ \E ct \in Range(CELL_TYPES) :
          Len(population_responders[ct]) + Len(population_nonresponders[ct]) > 0

\* Some qualifying row's sample has a record naming a population outside the five.
ForeignPopulation ==
    \E i \in QualifyingRows : \E k \in 1..Len(relative_csv) :
        /\ SampleOf(relative_csv[k]) = SampleIdOf(treatment_csv[i])
        /\ PopulationOf(relative_csv[k]) \notin Range(CELL_TYPES)

\* C10: whenever calculate_responders returns, the key set of both mappings is
\* exactly the five cell types; it does not return when a qualifying sample has a
\* record naming another population.
C10_OutputShape ==
    pc = "aggregated" =>
        /\ IsOk(responders) =>
              /\ DOMAIN population_responders = Range(CELL_TYPES)
              /\ DOMAIN population_nonresponders = Range(CELL_TYPES)
              /\ Cardinality(DOMAIN population_responders) = 5
        /\ ForeignPopulation => ~IsOk(responders)

\* Witness of C10: the aggregator returned for a table in which no row qualifies
\* while the relative table holds a record of a population outside the five.
C10_Witness ==
    /\ Returned
    /\ Len(treatment_csv) > 0 /\ QualifyingRows = {}
    /\ \E k \in 1..Len(relative_csv) : PopulationOf(relative_csv[k]) \notin Range(CELL_TYPES)

(***************************************************************************)
(* Ordering of the converter's output (SpecConvert).                       *)
(***************************************************************************)
\* C11: when all n input rows convert, convert_cell_count returns the header row
\* followed by exactly 5*n records; the records of input row i (zero-based) are at
\* positions 5*i+1 .. 5*i+5 and name the cell types in the enumeration order
\* b_cell, cd8_t_cell, cd4_t_cell, nk_cell, monocyte, each with that row's sample id
\* and that cell type's count.
C11_OutputOrdering ==
    pc = "converted" /\ IsOk(output_csv) =>
        /\ Len(output_csv.value) = 1 + 5 * Len(csv_rows)
        /\ At(output_csv.value, 0) = OUTPUT_HEADERS
        /\ \A i \in 0..(Len(csv_rows) - 1) : \A k \in 1..5 :
              LET record == At(output_csv.value, 5 * i + k)
                  row == At(csv_rows, i)
              IN  /\ At(record, 0) = At(row, TreatmentHeaders[SAMPLE_HEADER])
                  /\ At(record, 2) = CELL_TYPES[k]
                  /\ DecimalValue(At(record, 3)) = CountOf(row, k)

\* Witness of C11: a table of two rows with different sample ids and different counts
\* was converted.
C11_Witness ==
    /\ pc = "converted" /\ IsOk(output_csv)
    /\ Len(csv_rows) = 2
    /\ csv_rows[1][1] # csv_rows[2][1]
    /\ CountOf(csv_rows[1], 1) # CountOf(csv_rows[2], 1)

(***************************************************************************)
(* Properties of the analyzer's runs (SpecMain).                           *)
(***************************************************************************)
InRun == pc \in {"parsed", "read", "relative", "plotted"}
Printed(message) == message \in Range(stdout)
Regenerated == convert_cell_count(csv_headers.value, treatment_csv)

\* C12: with a derived-CSV path given, (i) a regular file at the path is read and used
\* and no step of the run writes it; (ii) when nothing is at the path and the table
\* can be generated, it is generated from the treatment table and written there, header
\* row plus all records; (iii) when the path is a directory and the table can be
\* generated, it is generated, a warning goes to standard error, the file system is
\* left as it was and the run goes on to plotting.  No step of a run replaces what
\* already exists at the path.
C12_DerivedPathHandling ==
    [][ InRun /\ arg_values.relative_csv # None =>
          LET path == arg_values.relative_csv
          IN  /\ isfile(fs, path) => fs'[path] = fs[path]
              /\ exists(fs, path) =>
                    /\ fs'[path].kind = fs[path].kind
                    /\ fs'[path].rows = fs[path].rows
                    /\ fs'[path].delimiter = fs[path].delimiter
                    /\ fs[path].files \subseteq fs'[path].files
              /\ pc = "read" /\ isfile(fs, path) =>
                    /\ fs' = fs /\ stdout' = stdout
                    /\ pc' = "relative" =>
                          relative_csv' = Tail(ReadLines(fs[path], arg_values.delimiter))
              /\ pc = "read" /\ ~exists(fs, path) /\ IsOk(Regenerated) =>
                    /\ pc' = "relative"
                    /\ relative_csv' = Tail(Regenerated.value)
                    /\ fs'[path] = RegularFile(Regenerated.value, arg_values.delimiter)
                    /\ WroteCsv(path) \in Range(stdout')
              /\ pc = "read" /\ isdir(fs, path) /\ IsOk(Regenerated) =>
                    /\ pc' = "relative"
                    /\ relative_csv' = Tail(Regenerated.value)
                    /\ fs' = fs
                    /\ CannotWriteCsv(path) \in Range(stderr')
    ]_vars

\* Witness of C12: a run reads the table from the regular file at the derived-CSV
\* path, a file that an earlier run generated and wrote when the path was free.
C12_Witness ==
    /\ pc = "relative"
    /\ arg_values.relative_csv # None
    /\ isfile(fs, arg_values.relative_csv)
    /\ ~Printed(WroteCsv(arg_values.relative_csv))
    /\ relative_csv = Tail(fs[arg_values.relative_csv].rows)
    /\ Len(relative_csv) = 5

\* C13: at the step that saves or shows the figures: with no directory given they
\* are displayed and the file system is untouched; when the given path exists and is
\* not a directory, a warning has been emitted, the file system is untouched and the
\* figures are displayed; when the given path is absent or a directory, the five
\* files <cell type>.png are under it afterwards, one "Saved" message per cell type
\* is printed, nothing is displayed and the run returns 0.
C13_BoxplotFallback ==
    [][ pc = "plotted" =>
          LET path == args.boxplot_dir
          IN  /\ path = None => displayed' /\ fs' = fs /\ exit_code' = Ok(0)
              /\ path # None /\ exists(fs, path) /\ ~isdir(fs, path) =>
                    /\ CannotSaveBoxplots(path) \in Range(stderr')
                    /\ fs' = fs
                    /\ displayed'
                    /\ exit_code' = Ok(0)
              /\ path # None /\ (~exists(fs, path) \/ isdir(fs, path)) =>
                    /\ isdir(fs', path)
                    /\ fs'[path].files = fs[path].files \cup {ImageName(CELL_TYPES[k]) : k \in 1..5}
                    /\ \A k \in 1..5 : SavedPlot(path, CELL_TYPES[k]) \in Range(stdout')
                    /\ ~displayed'
                    /\ exit_code' = Ok(0)
    ]_vars

\* C14: a run that ends with a data error (ValueError or ZeroDivisionError) has
\* written neither the derived CSV nor an image: its standard output names no
\* written file.
DataErrors == {"ValueError", "ZeroDivisionError"}
C14_NoPartialOutput ==
    pc = "exit" /\ exit_code.status \in DataErrors =>
        /\ \A path \in Paths : ~Printed(WroteCsv(path))
        /\ \A path \in Paths : \A k \in 1..5 : ~Printed(SavedPlot(path, CELL_TYPES[k]))

\* C15: in every run, the relative-count table handed to the aggregation is the
\* table convert_cell_count produces from that run's own treatment table.
C15_MemoizedByInput ==
    pc = "relative" =>
        /\ IsOk(Regenerated)
        /\ relative_csv = Tail(Regenerated.value)
        /\ rel_headers = get_csv_headers(Head(Regenerated.value), OUTPUT_HEADERS)

(***************************************************************************)
(* Properties of the standalone converter (SpecCounter).                   *)
(***************************************************************************)
\* A CSV the converter accepts: a header row with the sample column and the five
\* cell-type columns, and rows of integer counts whose total is not zero.
CellField(file, row, k) == At(row, index(Head(file), CELL_TYPES[k]))
ValidCounterInput(file) ==
    /\ Len(file) > 0
    /\ Range(<<SAMPLE_HEADER>> \o CELL_TYPES) \subseteq Range(Head(file))
    /\ \A i \in 2..Len(file) :
          /\ \A k \in 1..5 : IsDigitText(CellField(file, file[i], k))
          /\ \E k \in 1..5 : DecimalValue(CellField(file, file[i], k)) > 0

\* C16: relative_cell_counter.main on a valid CSV (and an output path that is not a
\* directory) returns 0 after handing write_csv the header row plus five records per
\* sample, which go to the named file or, with no output path, to standard output.
C16_CounterCompletes ==
    /\ pc = "exit"
    /\ args.tool = "relative_cell_counter"
    /\ ValidCounterInput(args.csv_file)
    /\ (args.output # None => ~isdir(fs, args.output))
    => /\ exit_code = Ok(0)
       /\ IsOk(output_csv)
       /\ Len(output_csv.value) = 1 + 5 * (Len(args.csv_file) - 1)
       /\ args.output = None => Printed(CsvOnStdout(output_csv.value))
       /\ args.output # None =>
             fs[args.output] = RegularFile(output_csv.value, args.delimiter)

====
